---- MODULE Spec2Model ----
(***************************************************************************)
(* Model of packages/client/src/runtime/core/engines/data-proxy/utils/     *)
(* getClientVersion.ts: the resolution of the client version sent to the   *)
(* Data Proxy.                                                             *)
(*                                                                         *)
(* JavaScript strings are sequences of one-character strings, so that      *)
(* split, the regular expression, the template literals, encodeURI and     *)
(* JSON.parse are computed character by character.  Other JavaScript       *)
(* values are records tagged by their type.                                *)
(***************************************************************************)
EXTENDS Integers, Sequences, FiniteSets, TLC

VARIABLES env, engineVersion, config, upstream, pc, res, inner, result, sent

vars == <<env, engineVersion, config, upstream, pc, res, inner, result, sent>>

(***************************************************************************)
(* Bounds of the explored input space.                                     *)
(***************************************************************************)
\* longest generated clientVersion over VersionAlphabet
MaxLen == 5
\* longest generated response body over BodyAlphabet
MaxBodyLen == 2
\* number of calls of the interleaved specification
NumCalls == 2

(***************************************************************************)
(* JavaScript values.                                                      *)
(***************************************************************************)
Undefined == [t |-> "undefined"]
Null == [t |-> "null"]
Str(s) == [t |-> "string", s |-> s]
Bool(b) == [t |-> "boolean", b |-> b]
Num(lit) == [t |-> "number", lit |-> lit]
Arr(items) == [t |-> "array", items |-> items]
Obj(members) == [t |-> "object", members |-> members]

IsString(v) == v.t = "string"

\* the conversion of a value to boolean in a condition
Truthy(v) ==
  CASE v.t = "undefined" -> FALSE
    [] v.t = "null" -> FALSE
    [] v.t = "string" -> Len(v.s) > 0
    [] v.t = "boolean" -> v.b
    [] OTHER -> TRUE

\* a ?? b
Nullish(v, d) == IF v.t \in {"undefined", "null"} THEN d ELSE v

\* the conversion of a value to the characters a template literal inserts
ToChars(v) ==
  CASE v.t = "undefined" -> <<"u", "n", "d", "e", "f", "i", "n", "e", "d">>
    [] v.t = "null" -> <<"n", "u", "l", "l">>
    [] v.t = "string" -> v.s
    [] v.t = "number" -> v.lit
    [] OTHER -> <<"?">>

Digits == {"0", "1", "2", "3", "4", "5", "6", "7", "8", "9"}
NonZeroDigits == Digits \ {"0"}

(***************************************************************************)
(* String.prototype.split(sep) for a one-character separator: the pieces   *)
(* between ALL occurrences of sep, in order.                                *)
(***************************************************************************)
RECURSIVE SplitFrom(_, _, _, _, _)
SplitFrom(s, sep, i, cur, acc) ==
  IF i > Len(s) THEN Append(acc, cur)
  ELSE IF s[i] = sep THEN SplitFrom(s, sep, i + 1, <<>>, Append(acc, cur))
  ELSE SplitFrom(s, sep, i + 1, Append(cur, s[i]), acc)

split(s, sep) == SplitFrom(s, sep, 1, <<>>, <<>>)

\* array destructuring: the k-th element, undefined past the end
At(parts, k) == IF k <= Len(parts) THEN Str(parts[k]) ELSE Undefined

(***************************************************************************)
(* semverRegex = /^[1-9][0-9]*\.[0-9]+\.[0-9]+$/ run as a left-to-right    *)
(* scan (the expression needs no backtracking: digit runs and dots are     *)
(* disjoint character classes).                                            *)
(***************************************************************************)
RECURSIVE ScanDigits(_, _)
ScanDigits(s, i) ==
  IF i <= Len(s) /\ s[i] \in Digits THEN ScanDigits(s, i + 1) ELSE i

\* the expression with [1-9] for the whole major: one digit only
semverRegexOneDigitMajor(s) ==
  /\ Len(s) >= 2
  /\ s[1] \in NonZeroDigits
  /\ s[2] = "."
  /\ LET i2 == ScanDigits(s, 3)
     IN  /\ i2 > 3
         /\ i2 <= Len(s)
         /\ s[i2] = "."
         /\ LET i3 == ScanDigits(s, i2 + 1)
            IN  /\ i3 > i2 + 1
                /\ i3 = Len(s) + 1

semverRegex(s) ==
  /\ Len(s) >= 1
  /\ s[1] \in NonZeroDigits
  /\ LET i1 == ScanDigits(s, 2)
     IN  /\ i1 <= Len(s)
         /\ s[i1] = "."
         /\ LET i2 == ScanDigits(s, i1 + 1)
            IN  /\ i2 > i1 + 1
                /\ i2 <= Len(s)
                /\ s[i2] = "."
                /\ LET i3 == ScanDigits(s, i2 + 1)
                   IN  /\ i3 > i2 + 1
                       /\ i3 = Len(s) + 1

\* semverRegex.test(v): the argument is converted to a string first
semverRegexTest(v) == semverRegex(ToChars(v))

(***************************************************************************)
(* encodeURI: the characters it leaves alone, and the UTF-8 percent        *)
(* escapes of the ASCII characters it does not.                            *)
(***************************************************************************)
UriUnescaped ==
  Digits \cup
  {"a", "b", "c", "d", "e", "f", "g", "h", "i", "j", "k", "l", "m", "n", "o",
   "p", "q", "r", "s", "t", "u", "v", "w", "x", "y", "z",
   "A", "B", "C", "D", "E", "F", "G", "H", "I", "J", "K", "L", "M", "N", "O",
   "P", "Q", "R", "S", "T", "U", "V", "W", "X", "Y", "Z",
   ";", ",", "/", "?", ":", "@", "&", "=", "+", "$", "-", "_", ".", "!", "~",
   "*", "'", "(", ")", "#"}

EncodeChar(c) ==
  IF c \in UriUnescaped THEN <<c>>
  ELSE CASE c = "<" -> <<"%", "3", "C">>
         [] c = ">" -> <<"%", "3", "E">>
         [] c = " " -> <<"%", "2", "0">>
         [] c = "\"" -> <<"%", "2", "2">>
         [] c = "{" -> <<"%", "7", "B">>
         [] c = "}" -> <<"%", "7", "D">>
         [] c = "[" -> <<"%", "5", "B">>
         [] c = "]" -> <<"%", "5", "D">>
         [] c = "%" -> <<"%", "2", "5">>
         [] OTHER -> <<"%", "?", "?">>

RECURSIVE encodeURI(_)
encodeURI(s) ==
  IF s = <<>> THEN <<>> ELSE EncodeChar(Head(s)) \o encodeURI(Tail(s))

UnpkgPrefix ==
  <<"h", "t", "t", "p", "s", ":", "/", "/", "u", "n", "p", "k", "g", ".",
    "c", "o", "m", "/", "p", "r", "i", "s", "m", "a", "@">>
PackageJsonPath ==
  <<"/", "p", "a", "c", "k", "a", "g", "e", ".", "j", "s", "o", "n">>

\* encodeURI of the template https://unpkg.com/prisma@${version}/package.json
prismaPkgURL(version) == encodeURI(UnpkgPrefix \o version \o PackageJsonPath)

\* the range of the exact version, without the <= operator
VersionExact(major, minor, patch) ==
  ToChars(major) \o <<".">> \o ToChars(minor) \o <<".">> \o ToChars(patch)

\* the template <=${major}.${minor}.${patch}
VersionRange(major, minor, patch) ==
  <<"<", "=">> \o ToChars(major) \o <<".">> \o ToChars(minor) \o <<".">>
    \o ToChars(patch)

(***************************************************************************)
(* JSON.parse, a recursive-descent parse of the text: a result is          *)
(* [ok |-> TRUE, value, next] or Fail, which stands for the SyntaxError.   *)
(***************************************************************************)
Fail == [ok |-> FALSE]
Parsed(v, n) == [ok |-> TRUE, value |-> v, next |-> n]

Whitespace == {" ", "\n", "\t", "\r"}

RECURSIVE SkipWs(_, _)
SkipWs(s, i) ==
  IF i <= Len(s) /\ s[i] \in Whitespace THEN SkipWs(s, i + 1) ELSE i

MatchAt(s, i, lit) ==
  /\ i + Len(lit) - 1 <= Len(s)
  /\ SubSeq(s, i, i + Len(lit) - 1) = lit

Unescape(c) ==
  CASE c = "\"" -> "\""
    [] c = "\\" -> "\\"
    [] c = "/" -> "/"
    [] c = "n" -> "\n"
    [] c = "t" -> "\t"
    [] c = "r" -> "\r"
    [] OTHER -> "?"

\* the characters of a string literal whose opening quote is before i
RECURSIVE ParseString(_, _, _)
ParseString(s, i, acc) ==
  IF i > Len(s) THEN Fail
  ELSE IF s[i] = "\"" THEN Parsed(acc, i + 1)
  ELSE IF s[i] = "\\"
    THEN IF i + 1 <= Len(s) /\ s[i + 1] \in {"\"", "\\", "/", "n", "t", "r"}
           THEN ParseString(s, i + 2, Append(acc, Unescape(s[i + 1])))
           ELSE Fail
  ELSE IF s[i] \in {"\n", "\t", "\r"} THEN Fail
  ELSE ParseString(s, i + 1, Append(acc, s[i]))

\* -?(0|[1-9][0-9]*)(\.[0-9]+)?([eE][+-]?[0-9]+)?
ParseNumber(s, i) ==
  LET j0 == IF s[i] = "-" THEN i + 1 ELSE i
  IN  IF j0 > Len(s) \/ s[j0] \notin Digits THEN Fail
      ELSE
        LET j1 == IF s[j0] = "0" THEN j0 + 1 ELSE ScanDigits(s, j0 + 1)
            hasFrac == j1 <= Len(s) /\ s[j1] = "."
            j2 == IF hasFrac THEN ScanDigits(s, j1 + 1) ELSE j1
            hasExp == j2 <= Len(s) /\ s[j2] \in {"e", "E"}
            k == IF hasExp /\ j2 + 1 <= Len(s) /\ s[j2 + 1] \in {"+", "-"}
                   THEN j2 + 2 ELSE j2 + 1
            j3 == IF hasExp THEN ScanDigits(s, k) ELSE j2
        IN  IF hasFrac /\ j2 = j1 + 1 THEN Fail
            ELSE IF hasExp /\ j3 = k THEN Fail
            ELSE Parsed(Num(SubSeq(s, i, j3 - 1)), j3)

RECURSIVE ParseValue(_, _), ParseElements(_, _, _), ParseMembers(_, _, _)
ParseValue(s, i0) ==
  LET i == SkipWs(s, i0)
  IN  IF i > Len(s) THEN Fail
      ELSE IF s[i] = "{"
        THEN LET j == SkipWs(s, i + 1)
             IN  IF j <= Len(s) /\ s[j] = "}" THEN Parsed(Obj(<<>>), j + 1)
                 ELSE ParseMembers(s, j, <<>>)
      ELSE IF s[i] = "["
        THEN LET j == SkipWs(s, i + 1)
             IN  IF j <= Len(s) /\ s[j] = "]" THEN Parsed(Arr(<<>>), j + 1)
                 ELSE ParseElements(s, j, <<>>)
      ELSE IF s[i] = "\""
        THEN LET r == ParseString(s, i + 1, <<>>)
             IN  IF r.ok THEN Parsed(Str(r.value), r.next) ELSE Fail
      ELSE IF s[i] \in Digits \cup {"-"} THEN ParseNumber(s, i)
      ELSE IF MatchAt(s, i, <<"n", "u", "l", "l">>) THEN Parsed(Null, i + 4)
      ELSE IF MatchAt(s, i, <<"t", "r", "u", "e">>)
        THEN Parsed(Bool(TRUE), i + 4)
      ELSE IF MatchAt(s, i, <<"f", "a", "l", "s", "e">>)
        THEN Parsed(Bool(FALSE), i + 5)
      ELSE Fail

ParseElements(s, i, acc) ==
  LET r == ParseValue(s, i)
  IN  IF ~r.ok THEN Fail
      ELSE LET j == SkipWs(s, r.next)
               items == Append(acc, r.value)
           IN  IF j > Len(s) THEN Fail
               ELSE IF s[j] = "," THEN ParseElements(s, j + 1, items)
               ELSE IF s[j] = "]" THEN Parsed(Arr(items), j + 1)
               ELSE Fail

ParseMembers(s, i0, acc) ==
  LET i == SkipWs(s, i0)
  IN  IF i > Len(s) \/ s[i] # "\"" THEN Fail
      ELSE
        LET key == ParseString(s, i + 1, <<>>)
        IN  IF ~key.ok THEN Fail
            ELSE
              LET c == SkipWs(s, key.next)
              IN  IF c > Len(s) \/ s[c] # ":" THEN Fail
                  ELSE
                    LET r == ParseValue(s, c + 1)
                    IN  IF ~r.ok THEN Fail
                        ELSE
                          LET j == SkipWs(s, r.next)
                              members ==
                                Append(acc, [key |-> key.value,
                                             value |-> r.value])
                          IN  IF j > Len(s) THEN Fail
                              ELSE IF s[j] = ","
                                THEN ParseMembers(s, j + 1, members)
                              ELSE IF s[j] = "}"
                                THEN Parsed(Obj(members), j + 1)
                              ELSE Fail

\* JSON.parse(text): one value, then only whitespace up to the end
JSONparse(text) ==
  LET r == ParseValue(text, 1)
  IN  IF r.ok /\ SkipWs(text, r.next) > Len(text) THEN r ELSE Fail

(***************************************************************************)
(* value[key]: the property read of line 73.  null and undefined have no   *)
(* properties (TypeError); an object yields its last member of that name;  *)
(* every other parsed value has no own or inherited property of that name. *)
(***************************************************************************)
VersionKey == <<"v", "e", "r", "s", "i", "o", "n">>

RECURSIVE Lookup(_, _, _)
Lookup(members, key, i) ==
  IF i = 0 THEN Undefined
  ELSE IF members[i].key = key THEN members[i].value
  ELSE Lookup(members, key, i - 1)

HasProperties(v) == v.t \notin {"null", "undefined"}

GetProperty(v, key) ==
  IF v.t = "object" THEN Lookup(v.members, key, Len(v.members))
  ELSE Undefined

(***************************************************************************)
(* Outcomes of a call, and the two errors the function constructs.         *)
(***************************************************************************)
Pending == [kind |-> "pending"]
Return(v) == [kind |-> "return", value |-> v]
Throw(e) == [kind |-> "throw", error |-> e]
NoResponse == [none |-> TRUE]

EmptyBodyPlaceholder ==
  <<"<", "e", "m", "p", "t", "y", " ", "b", "o", "d", "y", ">">>

\* the text without the placeholder for an empty one
BodyVerbatim(text) == text

\* (await res.text()) || '<empty body>'
BodyOrPlaceholder(text) ==
  IF Truthy(Str(text)) THEN text ELSE EmptyBodyPlaceholder

\* new Error('Failed to fetch stable Prisma version, unpkg.com status
\*   ${res.status} ${res.statusText}, response body: ${...}'), a template
\* literal, kept as its literal head and its three substitutions
FetchFailedError(r) ==
  [name |-> "Error",
   message |-> [head |-> "Failed to fetch stable Prisma version, unpkg.com status",
                status |-> r.status,
                statusText |-> r.statusText,
                body |-> BodyOrPlaceholder(r.body)]]

\* new NotImplementedYetError('Only major.minor.patch versions are
\*   supported by Prisma Data Proxy.', { clientVersion })
NotImplementedYetError(clientVersion) ==
  [name |-> "NotImplementedYetError",
   text |-> "Only major.minor.patch versions are supported by Prisma Data Proxy.",
   clientVersion |-> clientVersion]

\* the error JSON.parse throws, rethrown by the catch clause
JsonSyntaxError == [name |-> "SyntaxError"]
\* the error of reading a property of null
PropertyTypeError == [name |-> "TypeError"]

(***************************************************************************)
(* _getClientVersion up to its first await (lines 12-48): the decisions.   *)
(***************************************************************************)
\* the client version kept from the first configuration seen
clientVersionOfFirst(c) ==
  Nullish(config[1].clientVersion,
          Str(<<"u", "n", "k", "n", "o", "w", "n">>))

\* const clientVersion = config.clientVersion ?? 'unknown'
clientVersionOf(c) ==
  Nullish(config[c].clientVersion,
          Str(<<"u", "n", "k", "n", "o", "w", "n">>))

\* the override taken only when it has the shape of a release version
OverrideTakenIfSemver ==
  /\ Truthy(env.PRISMA_CLIENT_DATA_PROXY_CLIENT_VERSION)
  /\ semverRegexTest(env.PRISMA_CLIENT_DATA_PROXY_CLIENT_VERSION)

\* if (process.env.PRISMA_CLIENT_DATA_PROXY_CLIENT_VERSION)
OverrideTaken == Truthy(env.PRISMA_CLIENT_DATA_PROXY_CLIENT_VERSION)

\* if (suffix === undefined && semverRegex.test(version))
FastPath(version, suffix) == suffix = Undefined /\ semverRegexTest(version)

\* every version that is not a release taken for a development version
FallbackPathAnyUnreleased(suffix, clientVersion) ==
  suffix # Undefined \/ ~semverRegexTest(clientVersion)

\* if (suffix !== undefined || clientVersion === '0.0.0')
FallbackPath(suffix, clientVersion) ==
  suffix # Undefined \/ clientVersion = Str(<<"0", ".", "0", ".", "0">>)

\* the test flag tested for truthiness
TestModeTruthy == Truthy(env.TEST_DATA_PROXY)

\* if (process.env.TEST_DATA_PROXY !== undefined)
TestMode == env.TEST_DATA_PROXY # Undefined

\* the components compared with numbers
JsonProtocolPinNumeric(major, minor) ==
  major = Num(<<"4">>) /\ minor = Num(<<"1", "7">>)

\* if (major === '4' && minor === '17')
JsonProtocolPin(major, minor) ==
  major = Str(<<"4">>) /\ minor = Str(<<"1", "7">>)

\* lines 33-34 and 47: the URL asked of unpkg.com for the engine version
EnginePkgURL ==
  LET version == At(split(engineVersion, "-"), 1)
      parts == split(version.s, ".")
  IN  prismaPkgURL(VersionRange(At(parts, 1), At(parts, 2), At(parts, 3)))

EngineIsPinned ==
  LET version == At(split(engineVersion, "-"), 1)
      parts == split(version.s, ".")
  IN  JsonProtocolPin(At(parts, 1), At(parts, 2))

\* request(pkgURL, { clientVersion })
Request(url, clientVersion) ==
  [url |-> url, options |-> [clientVersion |-> clientVersion]]

\* the synchronous part: a settled outcome, or the request to await
SyncPart(c) ==
  LET clientVersion == clientVersionOf(c)
  IN  IF OverrideTaken
        THEN Return(env.PRISMA_CLIENT_DATA_PROXY_CLIENT_VERSION)
      ELSE
        LET parts == split(clientVersion.s, "-")
            version == At(parts, 1)
            suffix == At(parts, 2)
        IN  IF FastPath(version, suffix) THEN Return(version)
            ELSE IF FallbackPath(suffix, clientVersion)
              THEN IF TestMode THEN Return(Str(<<"0", ".", "0", ".", "0">>))
                   ELSE IF EngineIsPinned
                     THEN Return(Str(<<"5", ".", "0", ".", "0">>))
                   ELSE [kind |-> "request",
                         request |-> Request(EnginePkgURL, clientVersion)]
            ELSE Throw(NotImplementedYetError(clientVersion))

(***************************************************************************)
(* _getClientVersion after the response text has arrived (lines 62-73).    *)
(***************************************************************************)
\* the parse error logged and swallowed
ParseFailureSwallowed(bodyAsText) == Return(Undefined)

\* catch (e) { console.error(...); throw e }
ParseFailure(bodyAsText) == Throw(JsonSyntaxError)

\* return bodyAsJson['version'] as string
VersionOf(bodyAsJson) ==
  IF HasProperties(bodyAsJson)
    THEN Return(GetProperty(bodyAsJson, VersionKey))
    ELSE Throw(PropertyTypeError)

AfterText(bodyAsText) ==
  LET parsed == JSONparse(bodyAsText)
  IN  IF parsed.ok THEN VersionOf(parsed.value) ELSE ParseFailure(bodyAsText)

(***************************************************************************)
(* The steps of one call c of getClientVersion(config[c]).                 *)
(***************************************************************************)
Calls == DOMAIN config

\* getClientVersion is called: _getClientVersion runs to its first await,
\* or settles (line 88 then awaits the settled promise)
Call(c) ==
  /\ pc[c] = "idle"
  /\ LET o == SyncPart(c)
     IN  IF o.kind = "request"
           THEN /\ sent' = [sent EXCEPT ![c] = Append(@, o.request)]
                /\ pc' = [pc EXCEPT ![c] = "await_request"]
                /\ inner' = inner
           ELSE /\ inner' = [inner EXCEPT ![c] = o]
                /\ pc' = [pc EXCEPT ![c] = "await_inner"]
                /\ sent' = sent
  /\ UNCHANGED <<env, engineVersion, config, upstream, res, result>>

\* line 48 resumes with the response of unpkg.com; line 50 reads res.ok
RequestResolved(c) ==
  /\ pc[c] = "await_request"
  /\ res' = [res EXCEPT ![c] = upstream[c]]
  /\ pc' = [pc EXCEPT ![c] =
              IF upstream[c].ok THEN "await_text" ELSE "await_error_text"]
  /\ UNCHANGED <<env, engineVersion, config, upstream, inner, result, sent>>

\* line 55 resumes with the text of a response that is not ok: throw
TextOfFailure(c) ==
  /\ pc[c] = "await_error_text"
  /\ inner' = [inner EXCEPT ![c] = Throw(FetchFailedError(res[c]))]
  /\ pc' = [pc EXCEPT ![c] = "await_inner"]
  /\ UNCHANGED <<env, engineVersion, config, upstream, res, result, sent>>

\* line 62 resumes with the text of an ok response: parse, read version
TextOfSuccess(c) ==
  /\ pc[c] = "await_text"
  /\ inner' = [inner EXCEPT ![c] = AfterText(res[c].body)]
  /\ pc' = [pc EXCEPT ![c] = "await_inner"]
  /\ UNCHANGED <<env, engineVersion, config, upstream, res, result, sent>>

\* line 88 resumes: getClientVersion returns the version or rethrows
Settle(c) ==
  /\ pc[c] = "await_inner"
  /\ result' = [result EXCEPT ![c] = inner[c]]
  /\ pc' = [pc EXCEPT ![c] = "done"]
  /\ UNCHANGED <<env, engineVersion, config, upstream, res, inner, sent>>

Next ==
  \E c \in Calls :
    \/ Call(c)
    \/ RequestResolved(c)
    \/ TextOfFailure(c)
    \/ TextOfSuccess(c)
    \/ Settle(c)

(***************************************************************************)
(* The inputs.  Strings up to a length over an alphabet are generated;     *)
(* longer strings of interest are listed.                                  *)
(***************************************************************************)
StringsUpTo(alphabet, n) == UNION {[1..k -> alphabet] : k \in 0..n}

VersionAlphabet == {"1", "0", ".", "-"}
BodyAlphabet == {"{", "}", "[", "]", "\"", "1", "n", ","}

\* client versions: released, prerelease, the sentinel, malformed
ListedVersions ==
  {
    <<"1", ".", "2", ".", "3">>,
    <<"1", "0", ".", "2", "0", ".", "3", "0">>,
    <<"0", ".", "0", ".", "0">>,
    <<"1", ".", "2", ".", "3", "-", "d", "e", "v", ".", "7">>,
    <<"4", ".", "1", "8", ".", "0", "-", "i", "n", "t", "e", "g", "r", "a", "t", "i", "o", "n", "-", "x", ".", "1">>,
    <<"1", ".", "2", ".", "3", "-">>,
    <<"a", "b", "c">>,
    <<"0", "1", ".", "2", ".", "3">>,
    <<"1", ".", "2">>,
    <<"u", "n", "k", "n", "o", "w", "n">>
  }

\* the devDependencies entry of @prisma/engines-version
EngineVersions ==
  {
    <<"4", ".", "1", "7", ".", "2">>,
    <<"4", ".", "1", "7", ".", "0", "-", "2", "6", ".", "a", "b">>,
    <<"4", ".", "1", "8", ".", "0">>,
    <<"5", ".", "1", ".", "0", "-", "3", ".", "x">>,
    <<"4", ".", "1", "7", "0", ".", "1", "-", "1", ".", "c">>
  }

\* response bodies: package.json texts, error pages, malformed JSON
ListedBodies ==
  {
    <<"{", "\"", "v", "e", "r", "s", "i", "o", "n", "\"", ":", "\"", "4", ".", "1", "8", ".", "0", "\"", "}">>,
    <<"{", "\n", " ", "\"", "n", "a", "m", "e", "\"", ":", " ", "\"", "p", "r", "i", "s", "m", "a", "\"", ",", "\n", " ", "\"", "v", "e", "r", "s", "i", "o", "n", "\"", ":", " ", "\"", "4", ".", "1", "6", ".", "2", "\"", "\n", "}">>,
    <<"{", "\"", "n", "a", "m", "e", "\"", ":", "\"", "p", "r", "i", "s", "m", "a", "\"", "}">>,
    <<"{", "\"", "v", "e", "r", "s", "i", "o", "n", "\"", ":", "5", "}">>,
    <<"{", "\"", "v", "e", "r", "s", "i", "o", "n", "\"", ":", "\"", "1", "\"", ",", "\"", "v", "e", "r", "s", "i", "o", "n", "\"", ":", "\"", "4", ".", "1", "6", ".", "2", "\"", "}">>,
    <<"n", "u", "l", "l">>,
    <<"\"", "4", ".", "1", "8", ".", "0", "\"">>,
    <<"{", "\"", "v", "e", "r", "s", "i", "o", "n", "\"", ":">>,
    <<"n", "o", "t", " ", "f", "o", "u", "n", "d">>,
    <<>>
  }

\* values of PRISMA_CLIENT_DATA_PROXY_CLIENT_VERSION when defined
OverrideValues ==
  {
    <<>>,
    <<"9", ".", "9", ".", "9">>,
    <<"a", "b", "c">>
  }

\* values of TEST_DATA_PROXY when defined
TestFlagValues ==
  {
    <<>>,
    <<"1">>
  }

Environments ==
  [PRISMA_CLIENT_DATA_PROXY_CLIENT_VERSION :
     {Undefined} \cup {Str(v) : v \in OverrideValues},
   TEST_DATA_PROXY : {Undefined} \cup {Str(v) : v \in TestFlagValues}]

\* the response of request(): ok is true exactly for the statuses 200-299
Response(status, statusText, body) ==
  [status |-> status, statusText |-> statusText,
   ok |-> (status >= 200 /\ status <= 299), body |-> body]

StatusLines ==
  {<<200, <<"O", "K">>>>,
   <<404, <<"N", "o", "t", " ", "F", "o", "u", "n", "d">>>>,
   <<500, <<>>>>}

Responses(bodies) ==
  {Response(l[1], l[2], b) : l \in StatusLines, b \in bodies}

OkResponse ==
  Response(200, <<"O", "K">>,
           <<"{", "\"", "v", "e", "r", "s", "i", "o", "n", "\"", ":", "\"", "4", ".", "1", "8", ".", "0", "\"", "}">>)

\* the environments in which the fallback path goes on to fetch
FetchingEnvironments ==
  {e \in Environments :
     /\ e.TEST_DATA_PROXY = Undefined
     /\ ~Truthy(e.PRISMA_CLIENT_DATA_PROXY_CLIENT_VERSION)}

\* the calls of the interleaved specification draw from a few inputs
FewVersions ==
  {Str(<<"1", ".", "2", ".", "3">>),
   Str(<<"0", ".", "0", ".", "0">>),
   Str(<<"1", ".", "2", ".", "3", "-", "d", "e", "v", ".", "7">>),
   Str(<<"a", "b", "c">>)}
FewResponses ==
  {OkResponse,
   Response(404, <<"N", "o", "t", " ", "F", "o", "u", "n", "d">>, <<>>),
   Response(200, <<"O", "K">>, <<"{", "}">>)}
FewEnvironments ==
  {e \in Environments :
     /\ e.PRISMA_CLIENT_DATA_PROXY_CLIENT_VERSION
          \in {Undefined, Str(<<"9", ".", "9", ".", "9">>)}
     /\ e.TEST_DATA_PROXY \in {Undefined, Str(<<"1">>)}
     /\ (e.PRISMA_CLIENT_DATA_PROXY_CLIENT_VERSION = Undefined
           \/ e.TEST_DATA_PROXY = Undefined)}

(***************************************************************************)
(* Specifications.                                                         *)
(***************************************************************************)
Start(calls) ==
  /\ pc = [c \in calls |-> "idle"]
  /\ res = [c \in calls |-> NoResponse]
  /\ inner = [c \in calls |-> Pending]
  /\ result = [c \in calls |-> Pending]
  /\ sent = [c \in calls |-> <<>>]

\* one call with the given inputs
InitWith(e, ev, cv, r) ==
  /\ env = e
  /\ engineVersion = ev
  /\ config = <<[clientVersion |-> cv]>>
  /\ upstream = <<r>>
  /\ Start({1})

\* one call, over the input space: every generated client version with two
\* engines and one response; every generated response body on the path that
\* fetches; the listed values in every combination
Init ==
  \/ \E e \in Environments,
        ev \in {<<"4", ".", "1", "7", ".", "2">>,
                <<"4", ".", "1", "8", ".", "0">>},
        cv \in StringsUpTo(VersionAlphabet, MaxLen) :
       InitWith(e, ev, Str(cv), OkResponse)
  \/ \E e \in FetchingEnvironments,
        ev \in EngineVersions,
        cv \in {<<"0", ".", "0", ".", "0">>,
                <<"1", ".", "2", ".", "3", "-", "d", "e", "v", ".", "7">>},
        r \in Responses(StringsUpTo(BodyAlphabet, MaxBodyLen)) :
       InitWith(e, ev, Str(cv), r)
  \/ \E e \in Environments,
        ev \in EngineVersions,
        cv \in {Undefined, Null} \cup {Str(v) : v \in ListedVersions},
        r \in Responses(ListedBodies) :
       InitWith(e, ev, cv, r)

Spec == Init /\ [][Next]_vars

\* NumCalls calls, interleaved at their awaits
InitConc ==
  /\ env \in FewEnvironments
  /\ engineVersion \in {<<"4", ".", "1", "7", ".", "2">>,
                        <<"4", ".", "1", "8", ".", "0">>}
  /\ config \in [1..NumCalls -> {[clientVersion |-> v] : v \in FewVersions}]
  /\ upstream \in [1..NumCalls -> FewResponses]
  /\ Start(1..NumCalls)

SpecConc == InitConc /\ [][Next]_vars

(***************************************************************************)
(* Vocabulary of the properties, stated on the characters of the inputs    *)
(* and independently of the operators of the model above.                  *)
(***************************************************************************)
Done(c) == pc[c] = "done"
Called(c) == pc[c] # "idle"

Override == env.PRISMA_CLIENT_DATA_PROXY_CLIENT_VERSION
NoOverride == Override = Undefined
TestFlag == env.TEST_DATA_PROXY

Given(c) == config[c].clientVersion
Absent(c) == Given(c) \in {Undefined, Null}

HasHyphen(s) == \E i \in 1..Len(s) : s[i] = "-"

\* s matches ^[1-9][0-9]*\.[0-9]+\.[0-9]+$ : two dots cut s into three
\* non-empty runs of digits, the first not starting with 0
MatchesSemver(s) ==
  \E i, j \in 1..Len(s) :
    /\ 1 < i /\ i + 1 < j /\ j < Len(s)
    /\ s[i] = "." /\ s[j] = "."
    /\ \A k \in (1..Len(s)) \ {i, j} : s[k] \in Digits
    /\ s[1] # "0"

Sentinel == <<"0", ".", "0", ".", "0">>

\* the client version is a prerelease or the sentinel
OnFallback(c) ==
  /\ IsString(Given(c))
  /\ (HasHyphen(Given(c).s) \/ Given(c).s = Sentinel)

\* the engine version up to its first hyphen
BeforeHyphen(s) ==
  LET hyphens == {i \in 1..Len(s) : s[i] = "-"}
  IN  IF hyphens = {} THEN s
      ELSE SubSeq(s, 1, (CHOOSE i \in hyphens : \A j \in hyphens : i <= j) - 1)

\* the engine version ev is 4.17, 4.17.x or 4.17.x-suffix
Is417(ev) ==
  LET v == BeforeHyphen(ev)
  IN  /\ Len(v) >= 4
      /\ SubSeq(v, 1, 4) = <<"4", ".", "1", "7">>
      /\ (Len(v) = 4 \/ v[5] = ".")

Engine417 == Is417(engineVersion)

NoRequest(c) == sent[c] = <<>>

\* the conditions under which the call fetches from the registry
Fetches(c) ==
  /\ NoOverride
  /\ OnFallback(c)
  /\ TestFlag = Undefined
  /\ ~Engine417

Non2xx(r) == r.status < 200 \/ r.status > 299

(***************************************************************************)
(* The override (lines 15-18).                                             *)
(***************************************************************************)
\* C1, as stated: whenever the override variable is defined, whatever its
\* value, the call issues no request and returns that value.
C1_AnyDefinedOverrideReturned ==
  \A c \in Calls :
    Override # Undefined =>
      /\ NoRequest(c)
      /\ Done(c) => result[c] = Return(Override)

\* C1, amended: whenever the override variable is defined with a non-empty
\* value, the call issues no request and returns that value, whatever the
\* client version, the test flag and the engine version are.
C1_NonEmptyOverrideReturned ==
  \A c \in Calls :
    (Override # Undefined /\ Override.s # <<>>) =>
      /\ NoRequest(c)
      /\ Done(c) => result[c] = Return(Override)

\* a call with an absent client version and the test flag set has returned
\* the override
C1_Witness ==
  \E c \in Calls :
    /\ Done(c)
    /\ Override # Undefined /\ Override.s # <<>>
    /\ Absent(c)
    /\ TestFlag # Undefined
    /\ result[c] = Return(Override)

(***************************************************************************)
(* The fast path (lines 20-25).                                            *)
(***************************************************************************)
\* C2: with no override, a client version without hyphen that matches the
\* regular expression is returned unchanged, and no request is issued.
C2_ReleaseVersionReturned ==
  \A c \in Calls :
    (/\ NoOverride
     /\ IsString(Given(c))
     /\ ~HasHyphen(Given(c).s)
     /\ MatchesSemver(Given(c).s)) =>
      /\ NoRequest(c)
      /\ Done(c) => result[c] = Return(Given(c))

\* a call with a multi-digit release version has returned it
C2_Witness ==
  \E c \in Calls :
    /\ Done(c)
    /\ NoOverride
    /\ Given(c) = Str(<<"1", "0", ".", "2", "0", ".", "3", "0">>)
    /\ result[c] = Return(Given(c))

(***************************************************************************)
(* The 4.17 pin (lines 33-43).                                             *)
(***************************************************************************)
\* C3, as stated: with an engine version 4.17 and a prerelease client
\* version, the call returns "5.0.0" and issues no request.
C3_PinnedAlways ==
  \A c \in Calls :
    (Engine417 /\ IsString(Given(c)) /\ HasHyphen(Given(c).s)) =>
      /\ NoRequest(c)
      /\ Done(c) => result[c] = Return(Str(<<"5", ".", "0", ".", "0">>))

\* C3, amended: with an engine version 4.17 and a prerelease client
\* version, when the override is undefined or empty and the test flag is
\* undefined, the call returns "5.0.0" and issues no request.
C3_PinnedWithoutOverrideAndTestMode ==
  \A c \in Calls :
    (/\ Engine417 /\ IsString(Given(c)) /\ HasHyphen(Given(c).s)
     /\ (Override = Undefined \/ Override = Str(<<>>))
     /\ TestFlag = Undefined) =>
      /\ NoRequest(c)
      /\ Done(c) => result[c] = Return(Str(<<"5", ".", "0", ".", "0">>))

\* a call with a prerelease version under a suffixed 4.17 engine has
\* returned "5.0.0"
C3_Witness ==
  \E c \in Calls :
    /\ Done(c)
    /\ engineVersion = <<"4", ".", "1", "7", ".", "0", "-", "2", "6", ".", "a", "b">>
    /\ IsString(Given(c)) /\ HasHyphen(Given(c).s)
    /\ NoOverride /\ TestFlag = Undefined
    /\ result[c] = Return(Str(<<"5", ".", "0", ".", "0">>))

(***************************************************************************)
(* Test mode (lines 29-31).                                                *)
(***************************************************************************)
\* C4: with no override, for a client version with a hyphen or equal to
\* "0.0.0", a defined test flag (the empty string included) makes the call
\* return "0.0.0" without a request, whatever the engine version is.
C4_TestModeReturnsSentinel ==
  \A c \in Calls :
    (NoOverride /\ OnFallback(c) /\ TestFlag # Undefined) =>
      /\ NoRequest(c)
      /\ Done(c) => result[c] = Return(Str(Sentinel))

\* a call for "0.0.0" under an empty test flag has returned "0.0.0"
C4_Witness ==
  \E c \in Calls :
    /\ Done(c)
    /\ NoOverride
    /\ TestFlag = Str(<<>>)
    /\ Given(c) = Str(Sentinel)
    /\ ~Engine417
    /\ result[c] = Return(Str(Sentinel))

(***************************************************************************)
(* The response that is not ok (lines 47-57).                              *)
(***************************************************************************)
\* C5: when the call fetches and the response is not 2xx, the call throws
\* the Error of line 51 with the status, the status text and the body text
\* (the placeholder for an empty body), and it has issued exactly one
\* request.
C5_BadStatusThrows ==
  \A c \in Calls :
    (Fetches(c) /\ Non2xx(upstream[c])) =>
      /\ Len(sent[c]) <= 1
      /\ Done(c) =>
           /\ Len(sent[c]) = 1
           /\ result[c].kind = "throw"
           /\ result[c].error.name = "Error"
           /\ result[c].error.message.status = upstream[c].status
           /\ result[c].error.message.statusText = upstream[c].statusText
           /\ result[c].error.message.body =
                IF upstream[c].body = <<>> THEN EmptyBodyPlaceholder
                ELSE upstream[c].body

\* a call has failed on a 500 response with an empty body
C5_Witness ==
  \E c \in Calls :
    /\ Done(c)
    /\ Fetches(c)
    /\ upstream[c].status = 500
    /\ upstream[c].body = <<>>
    /\ result[c].kind = "throw"
    /\ result[c].error.message.body = EmptyBodyPlaceholder

(***************************************************************************)
(* The rejection (lines 76-79).                                            *)
(***************************************************************************)
\* C6: with no override, a client version that is absent, or that has no
\* hyphen, does not match the regular expression and is not "0.0.0",
\* makes the call throw NotImplementedYetError carrying the client version
\* ("unknown" when absent), without a request, whatever the test flag is.
C6_MalformedRejected ==
  \A c \in Calls :
    (/\ NoOverride
     /\ \/ Absent(c)
        \/ /\ IsString(Given(c))
           /\ ~HasHyphen(Given(c).s)
           /\ ~MatchesSemver(Given(c).s)
           /\ Given(c).s # Sentinel) =>
      /\ NoRequest(c)
      /\ Done(c) =>
           /\ result[c].kind = "throw"
           /\ result[c].error.name = "NotImplementedYetError"
           /\ result[c].error.clientVersion =
                IF Absent(c) THEN Str(<<"u", "n", "k", "n", "o", "w", "n">>)
                ELSE Given(c)

\* a call for "01.2.3" under a set test flag was rejected
C6_Witness ==
  \E c \in Calls :
    /\ Done(c)
    /\ NoOverride
    /\ TestFlag # Undefined
    /\ Given(c) = Str(<<"0", "1", ".", "2", ".", "3">>)
    /\ result[c].kind = "throw"
    /\ result[c].error.name = "NotImplementedYetError"

(***************************************************************************)
(* The fetch (lines 33-73).                                                *)
(***************************************************************************)
\* the URL of the range <= engine version up to its first hyphen
RangeURL ==
  UnpkgPrefix \o <<"%", "3", "C", "=">> \o BeforeHyphen(engineVersion)
    \o PackageJsonPath

\* the members named version of a parsed object that no later member of
\* that name overrides
VersionFields(v) ==
  IF v.t # "object" THEN {}
  ELSE {v.members[i].value : i \in
          {k \in 1..Len(v.members) :
             /\ v.members[k].key = VersionKey
             /\ \A j \in (k + 1)..Len(v.members) :
                  v.members[j].key # VersionKey}}

\* C7: when the call fetches, it issues exactly one request, for the range
\* <= major.minor.patch of the engine version cut at its first hyphen, and
\* when the response is ok and its body parses to an object with a version
\* field, the call returns the value of that field.
C7_FetchesClosestPublished ==
  \A c \in Calls :
    Fetches(c) =>
      /\ Called(c) =>
           /\ Len(sent[c]) = 1
           /\ sent[c][1].url = RangeURL
      /\ (/\ Done(c)
          /\ ~Non2xx(upstream[c])
          /\ JSONparse(upstream[c].body).ok
          /\ VersionFields(JSONparse(upstream[c].body).value) # {}) =>
           /\ result[c].kind = "return"
           /\ result[c].value
                \in VersionFields(JSONparse(upstream[c].body).value)

\* a call under a suffixed engine version has returned the version of a
\* pretty-printed package.json
C7_Witness ==
  \E c \in Calls :
    /\ Done(c)
    /\ Fetches(c)
    /\ HasHyphen(engineVersion)
    /\ Len(sent[c]) = 1
    /\ upstream[c].status = 200
    /\ result[c] = Return(Str(<<"4", ".", "1", "6", ".", "2">>))

\* C8: when the response is ok and its body does not parse, the call
\* throws the parse error: an error that is not the bad-status Error, no
\* value is returned.
C8_ParseErrorPropagates ==
  \A c \in Calls :
    (/\ Done(c)
     /\ res[c] # NoResponse
     /\ ~Non2xx(upstream[c])
     /\ ~JSONparse(upstream[c].body).ok) =>
      /\ result[c].kind = "throw"
      /\ result[c].error.name = "SyntaxError"
      /\ result[c].error # FetchFailedError(upstream[c])

\* a call whose 200 response was a truncated text has thrown
C8_Witness ==
  \E c \in Calls :
    /\ Done(c)
    /\ res[c] # NoResponse
    /\ upstream[c].status = 200
    /\ upstream[c].body # <<>>
    /\ ~JSONparse(upstream[c].body).ok
    /\ result[c].kind = "throw"

(***************************************************************************)
(* The kinds of outcome.                                                   *)
(***************************************************************************)
\* C10: a call that returns returns a string, and a call that throws
\* throws NotImplementedYetError, the bad-status Error or the parse error.
C10_StringOrKnownError ==
  \A c \in Calls :
    Done(c) =>
      /\ result[c].kind = "return" => IsString(result[c].value)
      /\ result[c].kind = "throw" =>
           result[c].error.name
             \in {"NotImplementedYetError", "Error", "SyntaxError"}

(***************************************************************************)
(* Independence of the calls.                                              *)
(***************************************************************************)
\* the outcome as a function of the inputs of one call alone: the client
\* version cv, the environment e, the engine version ev and the response r
Expected(cv, e, ev, r) ==
  LET given == IF cv \in {Undefined, Null}
                 THEN <<"u", "n", "k", "n", "o", "w", "n">> ELSE cv.s
      forced == e.PRISMA_CLIENT_DATA_PROXY_CLIENT_VERSION
  IN  IF forced # Undefined /\ forced.s # <<>> THEN Return(forced)
      ELSE IF ~HasHyphen(given) /\ MatchesSemver(given)
        THEN Return(Str(given))
      ELSE IF HasHyphen(given) \/ given = Sentinel
        THEN IF e.TEST_DATA_PROXY # Undefined THEN Return(Str(Sentinel))
             ELSE IF Is417(ev) THEN Return(Str(<<"5", ".", "0", ".", "0">>))
             ELSE IF Non2xx(r) THEN Throw(FetchFailedError(r))
             ELSE AfterText(r.body)
      ELSE Throw(NotImplementedYetError(Str(given)))

\* C9: however the calls interleave at their awaits, the outcome of every
\* call is the function Expected of its own client version, the
\* environment, the engine version and the response to its own request; so
\* two calls with the same inputs and response have the same outcome, and
\* every request carries the client version of the call that issued it.
C9_OutcomeOfOwnInputsOnly ==
  /\ \A c \in Calls :
       /\ Done(c) =>
            result[c] = Expected(Given(c), env, engineVersion, upstream[c])
       /\ \A k \in 1..Len(sent[c]) :
            sent[c][k].options.clientVersion = Given(c)
  /\ \A c, d \in Calls :
       (Done(c) /\ Done(d) /\ config[c] = config[d]
          /\ upstream[c] = upstream[d]) => result[c] = result[d]

\* a call that fetched is done while a call with another client version
\* and another response is between its request and its response text
C9_Witness ==
  \E c, d \in Calls :
    /\ c # d
    /\ Done(c)
    /\ sent[c] # <<>>
    /\ pc[d] = "await_text"
    /\ config[c] # config[d]
    /\ upstream[c] # upstream[d]
    /\ result[c] # Expected(Given(d), env, engineVersion, upstream[d])
====
